---- MODULE Spec2Model ----
(***************************************************************************)
(* A model of ytdl.py: the config repair (fix_config_if_needed), the       *)
(* companion-server supervisor (start_server), the single-item downloader   *)
(* (download_single) and the batch orchestrator (download_batch).           *)
(*                                                                         *)
(* Every function is a small step machine with its own program counter      *)
(* (rpc, spc, dpc, bpc); a caller starts a callee by setting the callee's   *)
(* counter to its first step and waits until it reads "done".               *)
(***************************************************************************)
EXTENDS Integers, Sequences, FiniteSets, TLC

(***************************************************************************)
(* Bounds of the model.                                                    *)
(***************************************************************************)
\* a folder template is built from at most this many chunks
MaxChunks == 3
\* fix_config_if_needed is run at most this many times on the profile
MaxRepairs == 2

(***************************************************************************)
(* Strings.  A template string is a sequence of tokens; the unsupported    *)
(* placeholder '{date:%Y}' is one token, so are '[', ']' and ' ', and      *)
(* "{album}" stands for any other template content.                        *)
(***************************************************************************)
Placeholder == "{date:%Y}"
Tokens == {"[", "]", " ", Placeholder, "{album}"}
Chunks == {<<t>> : t \in Tokens} \cup
          {<<"[", Placeholder, "]">>, <<" ", "[", Placeholder, "]">>}

SeqsUpTo(S, n) == UNION {[1..k -> S] : k \in 0..n}

RECURSIVE Flatten(_)
Flatten(cs) == IF cs = <<>> THEN <<>> ELSE Head(cs) \o Flatten(Tail(cs))

Templates == {Flatten(cs) : cs \in SeqsUpTo(Chunks, MaxChunks)}

\* Python's  pat in s  for strings
Contains(s, pat) ==
    \E i \in 1..(Len(s) - Len(pat) + 1) : SubSeq(s, i, i + Len(pat) - 1) = pat

\* Python's  s.replace(pat, '') : leftmost, non-overlapping occurrences
RECURSIVE Replace(_, _)
Replace(s, pat) ==
    IF Len(s) < Len(pat) THEN s
    ELSE IF SubSeq(s, 1, Len(pat)) = pat
         THEN Replace(SubSeq(s, Len(pat) + 1, Len(s)), pat)
         ELSE <<Head(s)>> \o Replace(Tail(s), pat)

(***************************************************************************)
(* Configuration documents.  download_mode is absent, the legacy value or   *)
(* some other value; template_folder is absent, a string, JSON null, or a  *)
(* JSON list holding the placeholder string.                               *)
(***************************************************************************)
Modes == {"absent", "aria2c", "default"}
TfKinds == {"absent", "str", "null", "list"}

Doc(m, k, t) == [download_mode |-> m, tf_kind |-> k, template_folder |-> t]

Docs == {Doc(m, "str", t) : m \in Modes, t \in Templates} \cup
        {Doc(m, k, <<>>) : m \in Modes, k \in TfKinds \ {"str"}}

\* str(config.get('template_folder', ''))
StrOfTemplate(cfg) ==
    CASE cfg.tf_kind = "str"    -> cfg.template_folder
      [] cfg.tf_kind = "absent" -> <<>>
      [] cfg.tf_kind = "null"   -> <<"None">>
      [] cfg.tf_kind = "list"   -> <<"['", Placeholder, "']">>

\* the test that guards the backup
NeedsBackup(cfg) ==
    \/ cfg.download_mode = "aria2c"
    \/ Contains(StrOfTemplate(cfg), <<Placeholder>>)

\* template.replace(' [{date:%Y}]', '').replace('[{date:%Y}]', '')
NewTemplate(template) ==
    Replace(Replace(template, <<" ", "[", Placeholder, "]">>),
            <<"[", Placeholder, "]">>)

VARIABLES
    \* the file system and the process table
    doc,            \* the profile's configuration document on disk
    docReadable,    \* open + json.load of the profile succeed
    backup,         \* backups/configs/<stem>_backup.json : <<>> or <<document>>
    procs,          \* the companion (node main.js) processes, by pid
    serverFile,     \* bgutil-pot-provider/server/build/main.js exists
    profileExists,  \* config/<profile>.json exists
    venv,           \* env/Scripts/python.exe or env/bin/python exists
    importable,     \* 'import gytmdl' works in sys.executable
    exitCodes,      \* the exit codes the engine subprocess can give
    \* fix_config_if_needed
    rpc,            \* position in fix_config_if_needed
    create_backup,  \* its parameter
    config,         \* its in-memory document
    fixed,          \* its local flag
    rRet,           \* its return value
    rLog,           \* what this run did to the disk, in order
    rOrig,          \* the document on disk when this run started
    rHist,          \* one record per finished run
    \* start_server
    spc,            \* position in start_server
    pid,            \* its local: what is_server_running returned (0: None)
    ssHealthy,      \* what its first check_server_health returned
    ssRet,          \* its return value
    ssLog,          \* what this call did, in order
    ssCalls,        \* how many calls of start_server have begun
    \* download_single
    dpc,            \* position in download_single
    max_retries,    \* its parameter
    auto_fix,       \* its parameter
    attempt,        \* its loop variable
    result,         \* its local: <<>> while unbound, else <<returncode>>
    dRet,           \* its return value
    dCodes,         \* the exit codes of this call's engine runs, in order
    dSsRet,         \* what start_server returned to this call
    \* download_batch
    bpc,            \* position in download_batch
    list_file,      \* the list file: <<>> if missing, else <<its lines>>
    continue_on_error, \* its parameter
    urls,           \* its list of (line_num, url)
    index,          \* its loop position (enumerate(urls, 1))
    success_count,
    fail_count,
    failed_urls,
    bRet,           \* its return value
    attempted,      \* the positions handed to download_single, in order
    outcomes,       \* how each finished download_single call ended, in order
    interrupted,    \* the loop's except KeyboardInterrupt clause ran
    signals         \* how many interrupt signals were delivered

fsVars == <<doc, docReadable, backup>>
sysVars == <<serverFile, profileExists, venv, importable, exitCodes>>
procVars == <<procs>>
repairVars == <<rpc, create_backup, config, fixed, rRet, rLog, rOrig, rHist>>
serverVars == <<spc, pid, ssHealthy, ssRet, ssLog, ssCalls>>
downloadVars == <<dpc, max_retries, auto_fix, attempt, result, dRet, dCodes, dSsRet>>
batchVars == <<bpc, list_file, continue_on_error, urls, index, success_count,
               fail_count, failed_urls, bRet, attempted, outcomes, interrupted,
               signals>>
vars == <<fsVars, sysVars, procVars, repairVars, serverVars, downloadVars, batchVars>>

\* what a step of fix_config_if_needed, and what a step of start_server,
\* leaves alone
notRepair == <<sysVars, procVars, serverVars, downloadVars, batchVars>>
notServer == <<fsVars, sysVars, repairVars, downloadVars, batchVars>>

NoDoc == Doc("absent", "absent", <<>>)

(***************************************************************************)
(* fix_config_if_needed                                                    *)
(***************************************************************************)
\* the function is left: by return True, by return False, or through the
\* except clause, which also ends in return False
RepairReturn(ret, log, after) ==
    /\ rpc' = "done"
    /\ rRet' = ret
    /\ rLog' = log
    /\ rHist' = Append(rHist, [ret |-> ret, log |-> log, before |-> rOrig,
                               after |-> after, backup |-> create_backup])

\* entry: the caller's arguments are bound
RepairEnter(cb) ==
    /\ rpc' = "read"
    /\ create_backup' = cb
    /\ config' = NoDoc
    /\ fixed' = FALSE
    /\ rRet' = FALSE
    /\ rLog' = <<>>
    /\ rOrig' = doc
    /\ UNCHANGED rHist

\* the caller has the result: the frame is gone
RepairLeave ==
    /\ rpc' = "idle"
    /\ create_backup' = FALSE
    /\ config' = NoDoc
    /\ fixed' = FALSE
    /\ rRet' = FALSE
    /\ rLog' = <<>>
    /\ rOrig' = NoDoc
    /\ UNCHANGED rHist

\* with open(config_path) ... json.load ; fixed = False
R_read ==
    /\ UNCHANGED notRepair
    /\ rpc = "read"
    /\ IF docReadable
       THEN /\ config' = doc
            /\ fixed' = FALSE
            /\ rpc' = "backup"
            /\ UNCHANGED <<rRet, rLog, rHist>>
       ELSE /\ RepairReturn(FALSE, rLog, doc)
            /\ UNCHANGED <<config, fixed>>
    /\ UNCHANGED <<fsVars, create_backup, rOrig>>

\* backup_config: copy the file; any failure is swallowed and None returned
backup_config(ok) ==
    /\ backup' = IF ok THEN <<doc>> ELSE backup
    /\ rLog' = Append(rLog, IF ok THEN "backup" ELSE "backup_failed")

R_backup ==
    /\ UNCHANGED notRepair
    /\ rpc = "backup"
    /\ IF create_backup /\ NeedsBackup(config)
       THEN \E ok \in BOOLEAN : backup_config(ok)
       ELSE UNCHANGED <<backup, rLog>>
    /\ rpc' = "fix1"
    /\ UNCHANGED <<doc, docReadable, create_backup, config, fixed, rRet, rOrig, rHist>>

\* Fix 1: remove aria2c download mode
R_fix1 ==
    /\ UNCHANGED notRepair
    /\ rpc = "fix1"
    /\ IF config.download_mode = "aria2c"
       THEN /\ config' = [config EXCEPT !.download_mode = "absent"]
            /\ fixed' = TRUE
       ELSE UNCHANGED <<config, fixed>>
    /\ rpc' = "fix2"
    /\ UNCHANGED <<fsVars, create_backup, rRet, rLog, rOrig, rHist>>

\* Fix 2: the date template.  '{date:%Y}' in template raises TypeError for
\* null; for the list it is true and template.replace raises AttributeError
Fix2Raises(cfg) == cfg.tf_kind \in {"null", "list"}

R_fix2 ==
    /\ UNCHANGED notRepair
    /\ rpc = "fix2"
    /\ IF Fix2Raises(config)
       THEN /\ RepairReturn(FALSE, rLog, doc)
            /\ UNCHANGED <<config, fixed>>
       ELSE /\ IF /\ config.tf_kind = "str"
                  /\ Contains(config.template_folder, <<Placeholder>>)
               THEN /\ config' = [config EXCEPT !.template_folder =
                                      NewTemplate(config.template_folder)]
                    /\ fixed' = TRUE
               ELSE UNCHANGED <<config, fixed>>
            /\ rpc' = "write"
            /\ UNCHANGED <<rRet, rLog, rHist>>
    /\ UNCHANGED <<fsVars, create_backup, rOrig>>

\* R_write reporting a fix although the write failed
R_write_ReportsFixed ==
    /\ UNCHANGED notRepair
    /\ rpc = "write"
    /\ IF fixed
       THEN \E ok \in BOOLEAN :
              /\ doc' = IF ok THEN config ELSE doc
              /\ RepairReturn(TRUE, Append(rLog, IF ok THEN "write" ELSE "write_failed"),
                              IF ok THEN config ELSE doc)
       ELSE /\ UNCHANGED doc
            /\ RepairReturn(FALSE, rLog, doc)
    /\ UNCHANGED <<docReadable, backup, create_backup, config, fixed, rOrig>>

\* if fixed: json.dump(config) ; return True     else: return False
R_write ==
    /\ UNCHANGED notRepair
    /\ rpc = "write"
    /\ IF fixed
       THEN \E ok \in BOOLEAN :
              /\ doc' = IF ok THEN config ELSE doc
              /\ RepairReturn(ok, Append(rLog, IF ok THEN "write" ELSE "write_failed"),
                              IF ok THEN config ELSE doc)
       ELSE /\ UNCHANGED doc
            /\ RepairReturn(FALSE, rLog, doc)
    /\ UNCHANGED <<docReadable, backup, create_backup, config, fixed, rOrig>>

fix_config_if_needed == R_read \/ R_backup \/ R_fix1 \/ R_fix2 \/ R_write

(***************************************************************************)
(* The companion processes.  A process is "starting" (alive, not yet       *)
(* answering /ping), "up" (answering), "hung" (alive, not answering),      *)
(* "terminating" (sent SIGTERM, still alive) or "dead"; "free" is a pid    *)
(* not used yet.                                                           *)
(***************************************************************************)
MaxPid == 2
Pids == 1..MaxPid
Alive == {p \in Pids : procs[p] \in {"starting", "up", "hung", "terminating"}}
FreePids == {p \in Pids : procs[p] = "free"}

\* requests.get('http://127.0.0.1:4416/ping', timeout=1) answers 200
check_server_health == \E p \in Pids : procs[p] = "up"

\* the pids is_server_running may return: a node process running main.js,
\* or None (0) when there is none
is_server_running == IF Alive = {} THEN {0} ELSE Alive

\* the companion finishes starting and answers /ping
ProcReady ==
    /\ \E p \in Pids : procs[p] = "starting" /\ procs' = [procs EXCEPT ![p] = "up"]
    /\ UNCHANGED <<fsVars, sysVars, repairVars, serverVars, downloadVars, batchVars>>

\* the companion stops answering /ping
ProcHang ==
    /\ \E p \in Pids : procs[p] = "up" /\ procs' = [procs EXCEPT ![p] = "hung"]
    /\ UNCHANGED <<fsVars, sysVars, repairVars, serverVars, downloadVars, batchVars>>

\* a process that was sent SIGTERM exits
ProcExit ==
    /\ \E p \in Pids : procs[p] = "terminating" /\ procs' = [procs EXCEPT ![p] = "dead"]
    /\ UNCHANGED <<fsVars, sysVars, repairVars, serverVars, downloadVars, batchVars>>

(***************************************************************************)
(* start_server                                                            *)
(***************************************************************************)
ServerEnter ==
    /\ spc' = "find"
    /\ pid' = 0
    /\ ssHealthy' = FALSE
    /\ ssRet' = -1
    /\ ssLog' = <<>>
    /\ ssCalls' = ssCalls + 1

ServerReturn(ret) ==
    /\ spc' = "done"
    /\ ssRet' = ret

\* the caller has the status: the frame is gone
ServerLeave ==
    /\ spc' = "idle"
    /\ pid' = 0
    /\ ssHealthy' = FALSE
    /\ ssRet' = -1
    /\ ssLog' = <<>>
    /\ UNCHANGED ssCalls

\* pid = is_server_running() ; if pid:
S_find ==
    /\ spc = "find"
    /\ \E q \in is_server_running :
         /\ pid' = q
         /\ spc' = IF q # 0 THEN "probe" ELSE "exists"
    /\ UNCHANGED <<procs, ssHealthy, ssRet, ssLog, ssCalls>>
    /\ UNCHANGED notServer

\* S_probe without its return: a healthy server falls through to the start
S_probe_NoReturn ==
    /\ spc = "probe"
    /\ ssHealthy' = check_server_health
    /\ spc' = IF check_server_health THEN "exists" ELSE "terminate"
    /\ UNCHANGED <<procs, pid, ssRet, ssLog, ssCalls>>
    /\ UNCHANGED notServer

\* S_probe going on to the start without the terminate
S_probe_NoTerminate ==
    /\ spc = "probe"
    /\ ssHealthy' = check_server_health
    /\ IF check_server_health
       THEN ServerReturn(0)
       ELSE spc' = "exists" /\ UNCHANGED ssRet
    /\ UNCHANGED <<procs, pid, ssLog, ssCalls>>
    /\ UNCHANGED notServer

\* if check_server_health(): return 0    else: restart
S_probe ==
    /\ spc = "probe"
    /\ ssHealthy' = check_server_health
    /\ IF check_server_health
       THEN ServerReturn(0)
       ELSE spc' = "terminate" /\ UNCHANGED ssRet
    /\ UNCHANGED <<procs, pid, ssLog, ssCalls>>
    /\ UNCHANGED notServer

\* psutil.Process(pid).terminate() ; time.sleep(1), all under except: pass.
\* The process is gone after the sleep ("killed"), the call raises
\* (NoSuchProcess, AccessDenied: "raised"), or the signal is sent and the
\* process is still alive after the sleep ("pending").
TerminateOutcomes(q) ==
    IF procs[q] = "dead" THEN {"raised"} ELSE {"killed", "raised", "pending"}

S_terminate ==
    /\ spc = "terminate"
    /\ \E o \in TerminateOutcomes(pid) :
         procs' = CASE o = "killed"  -> [procs EXCEPT ![pid] = "dead"]
                    [] o = "pending" -> [procs EXCEPT ![pid] = "terminating"]
                    [] o = "raised"  -> procs
    /\ ssLog' = Append(ssLog, "terminate")
    /\ spc' = "exists"
    /\ UNCHANGED <<pid, ssHealthy, ssRet, ssCalls>>
    /\ UNCHANGED notServer

\* S_exists without the test: the spawn is tried whatever is on disk
S_exists_NoCheck ==
    /\ spc = "exists"
    /\ ssLog' = Append(ssLog, "exists")
    /\ spc' = "spawn"
    /\ UNCHANGED <<procs, pid, ssHealthy, ssRet, ssCalls>>
    /\ UNCHANGED notServer

\* if not server_path.exists(): return 1
S_exists ==
    /\ spc = "exists"
    /\ ssLog' = Append(ssLog, "exists")
    /\ IF serverFile
       THEN spc' = "spawn" /\ UNCHANGED ssRet
       ELSE ServerReturn(1)
    /\ UNCHANGED <<procs, pid, ssHealthy, ssCalls>>
    /\ UNCHANGED notServer

\* subprocess.Popen([... 'node', server_path]) ; a failure (FileNotFoundError
\* or any other exception) returns 1
S_spawn ==
    /\ spc = "spawn"
    /\ \E ok \in (IF FreePids = {} THEN {FALSE} ELSE BOOLEAN) :
         IF ok
         THEN /\ \E p \in FreePids :
                   /\ \A q \in FreePids : p <= q
                   /\ procs' = [procs EXCEPT ![p] = "starting"]
              /\ ssLog' = Append(ssLog, "spawn")
              /\ spc' = "reprobe"
              /\ UNCHANGED ssRet
         ELSE /\ ssLog' = Append(ssLog, "spawn_failed")
              /\ ServerReturn(1)
              /\ UNCHANGED procs
    /\ UNCHANGED <<pid, ssHealthy, ssCalls>>
    /\ UNCHANGED notServer

\* S_reprobe reporting a server that does not answer yet as a failure
S_reprobe_Strict ==
    /\ spc = "reprobe"
    /\ ServerReturn(IF check_server_health THEN 0 ELSE 1)
    /\ UNCHANGED <<procs, pid, ssHealthy, ssLog, ssCalls>>
    /\ UNCHANGED notServer

\* time.sleep(2) ; healthy or not, return 0
S_reprobe ==
    /\ spc = "reprobe"
    /\ ServerReturn(IF check_server_health THEN 0 ELSE 0)
    /\ UNCHANGED <<procs, pid, ssHealthy, ssLog, ssCalls>>
    /\ UNCHANGED notServer

start_server == S_find \/ S_probe \/ S_terminate \/ S_exists \/ S_spawn \/ S_reprobe

(***************************************************************************)
(* download_single                                                         *)
(***************************************************************************)
\* what one run of the engine subprocess may give: an exit code, or
\* subprocess.run itself raising (the interpreter cannot be executed)
ExitCodes == {0, 1, 2}
EngineOutcomes == {[raises |-> FALSE, code |-> c] : c \in exitCodes} \cup
                  {[raises |-> TRUE, code |-> 0]}

\* download_single's defaults, which download_batch and main use
DefaultMaxRetries == 2
DefaultAutoFix == TRUE

notDownload == <<sysVars, batchVars>>

DownloadEnter(af, mr) ==
    /\ dpc' = "server"
    /\ auto_fix' = af
    /\ max_retries' = mr
    /\ attempt' = 0
    /\ result' = <<>>
    /\ dRet' = -1
    /\ dCodes' = <<>>
    /\ dSsRet' = -1

DownloadReturn(ret) ==
    /\ dpc' = "done"
    /\ dRet' = ret

\* the caller has the result: the frame is gone
DownloadLeave ==
    /\ dpc' = "idle"
    /\ auto_fix' = DefaultAutoFix
    /\ max_retries' = DefaultMaxRetries
    /\ attempt' = 0
    /\ result' = <<>>
    /\ dRet' = -1
    /\ dCodes' = <<>>
    /\ dSsRet' = -1

\* os.chdir(root_dir) ; start_server()
D_server ==
    /\ dpc = "server"
    /\ ServerEnter
    /\ dpc' = "profile"
    /\ UNCHANGED <<max_retries, auto_fix, attempt, result, dRet, dCodes, dSsRet>>
    /\ UNCHANGED <<fsVars, procVars, repairVars, notDownload>>

\* D_profile without the return: a missing profile goes on to the repair
D_profile_NoReturn ==
    /\ dpc = "profile"
    /\ spc = "done"
    /\ dSsRet' = ssRet
    /\ dpc' = "fix"
    /\ ServerLeave
    /\ UNCHANGED <<max_retries, auto_fix, attempt, result, dRet, dCodes>>
    /\ UNCHANGED <<fsVars, procVars, repairVars, notDownload>>

\* D_profile giving up when start_server reported a failure
D_profile_Abort ==
    /\ dpc = "profile"
    /\ spc = "done"
    /\ dSsRet' = ssRet
    /\ IF profileExists /\ ssRet = 0
       THEN dpc' = "fix" /\ UNCHANGED dRet
       ELSE DownloadReturn(1)
    /\ ServerLeave
    /\ UNCHANGED <<max_retries, auto_fix, attempt, result, dCodes>>
    /\ UNCHANGED <<fsVars, procVars, repairVars, notDownload>>

\* start_server has returned and its status is dropped ;
\* if not config_path.exists(): return 1
D_profile ==
    /\ dpc = "profile"
    /\ spc = "done"
    /\ dSsRet' = ssRet
    /\ IF profileExists
       THEN dpc' = "fix" /\ UNCHANGED dRet
       ELSE DownloadReturn(1)
    /\ ServerLeave
    /\ UNCHANGED <<max_retries, auto_fix, attempt, result, dCodes>>
    /\ UNCHANGED <<fsVars, procVars, repairVars, notDownload>>

\* if auto_fix: fix_config_if_needed(config_path)
D_fix ==
    /\ dpc = "fix"
    /\ IF auto_fix
       THEN RepairEnter(TRUE)
       ELSE UNCHANGED repairVars
    /\ dpc' = IF auto_fix THEN "fixing" ELSE "env"
    /\ UNCHANGED <<max_retries, auto_fix, attempt, result, dRet, dCodes, dSsRet>>
    /\ UNCHANGED <<fsVars, procVars, serverVars, notDownload>>

\* fix_config_if_needed has returned (its result only picks a log line)
D_fixed ==
    /\ dpc = "fixing"
    /\ rpc = "done"
    /\ dpc' = "env"
    /\ RepairLeave
    /\ UNCHANGED <<max_retries, auto_fix, attempt, result, dRet, dCodes, dSsRet>>
    /\ UNCHANGED <<fsVars, procVars, serverVars, notDownload>>

\* the interpreter: the venv's, else sys.executable if 'import gytmdl'
\* runs there (result holds that check), else return 1
D_env ==
    /\ dpc = "env"
    /\ IF venv
       THEN dpc' = "loop" /\ UNCHANGED <<result, dRet>>
       ELSE /\ result' = <<IF importable THEN 0 ELSE 1>>
            /\ IF importable
               THEN dpc' = "loop" /\ UNCHANGED dRet
               ELSE DownloadReturn(1)
    /\ UNCHANGED <<max_retries, auto_fix, attempt, dCodes, dSsRet>>
    /\ UNCHANGED <<fsVars, procVars, repairVars, serverVars, notDownload>>

\* D_loop over range(max_retries): one attempt short
D_loop_OneShort ==
    /\ dpc = "loop"
    /\ IF attempt < max_retries
       THEN \E o \in EngineOutcomes :
              IF o.raises
              THEN /\ dpc' = "raised"
                   /\ UNCHANGED <<attempt, result, dRet, dCodes>>
              ELSE /\ result' = <<o.code>>
                   /\ dCodes' = Append(dCodes, o.code)
                   /\ IF o.code = 0
                      THEN DownloadReturn(0) /\ UNCHANGED attempt
                      ELSE /\ attempt' = attempt + 1
                           /\ UNCHANGED <<dpc, dRet>>
       ELSE /\ IF result = <<>>
               THEN dpc' = "raised" /\ UNCHANGED dRet
               ELSE DownloadReturn(result[1])
            /\ UNCHANGED <<attempt, result, dCodes>>
    /\ UNCHANGED <<max_retries, auto_fix, dSsRet>>
    /\ UNCHANGED <<fsVars, procVars, repairVars, serverVars, notDownload>>

\* for attempt in range(max_retries + 1): run the engine, return 0 on exit
\* code 0 ; after the loop: return result.returncode, which raises
\* UnboundLocalError when result was never bound
D_loop ==
    /\ dpc = "loop"
    /\ IF attempt <= max_retries
       THEN \E o \in EngineOutcomes :
              IF o.raises
              THEN /\ dpc' = "raised"
                   /\ UNCHANGED <<attempt, result, dRet, dCodes>>
              ELSE /\ result' = <<o.code>>
                   /\ dCodes' = Append(dCodes, o.code)
                   /\ IF o.code = 0
                      THEN DownloadReturn(0) /\ UNCHANGED attempt
                      ELSE /\ attempt' = attempt + 1
                           /\ UNCHANGED <<dpc, dRet>>
       ELSE /\ IF result = <<>>
               THEN dpc' = "raised" /\ UNCHANGED dRet
               ELSE DownloadReturn(result[1])
            /\ UNCHANGED <<attempt, result, dCodes>>
    /\ UNCHANGED <<max_retries, auto_fix, dSsRet>>
    /\ UNCHANGED <<fsVars, procVars, repairVars, serverVars, notDownload>>

download_single == D_server \/ D_profile \/ D_fix \/ D_fixed \/ D_env \/ D_loop

(***************************************************************************)
(* download_batch                                                          *)
(***************************************************************************)
\* A line of the list file is a sequence of tokens: " " is white space,
\* "#" the comment sign, anything else stands for text without either.
\* The line terminator is white space too and goes with the strip.
IsSpace(c) == c = " "

\* Python's line.strip()
RECURSIVE LStrip(_)
LStrip(l) == IF l # <<>> /\ IsSpace(Head(l)) THEN LStrip(Tail(l)) ELSE l
RECURSIVE RStrip(_)
RStrip(l) == IF l # <<>> /\ IsSpace(l[Len(l)])
             THEN RStrip(SubSeq(l, 1, Len(l) - 1)) ELSE l
Strip(l) == RStrip(LStrip(l))

\* ReadUrls numbering only the lines it keeps
RECURSIVE ReadUrls_CountKept(_, _)
ReadUrls_CountKept(ls, line_num) ==
    IF ls = <<>> THEN <<>>
    ELSE LET line == Strip(Head(ls))
         IN  IF line = <<>> \/ line[1] = "#"
             THEN ReadUrls_CountKept(Tail(ls), line_num)
             ELSE <<<<line_num, line>>>> \o ReadUrls_CountKept(Tail(ls), line_num + 1)

\* for line_num, line in enumerate(f, 1): strip, skip blank and '#' lines,
\* urls.append((line_num, line))
RECURSIVE ReadUrls(_, _)
ReadUrls(ls, line_num) ==
    IF ls = <<>> THEN <<>>
    ELSE LET line == Strip(Head(ls))
             rest == ReadUrls(Tail(ls), line_num + 1)
         IN  IF line = <<>> \/ line[1] = "#"
             THEN rest
             ELSE <<<<line_num, line>>>> \o rest

notBatch == <<sysVars, fsVars, procVars, repairVars>>
BatchKeeps == <<list_file, continue_on_error>>

BatchReturn(ret) ==
    /\ bpc' = "done"
    /\ bRet' = ret

\* if not list_path.exists(): return 1
B_exists ==
    /\ bpc = "exists"
    /\ IF list_file = <<>>
       THEN BatchReturn(1)
       ELSE bpc' = "server" /\ UNCHANGED bRet
    /\ UNCHANGED <<BatchKeeps, urls, index, success_count, fail_count,
                   failed_urls, attempted, outcomes, interrupted, signals>>
    /\ UNCHANGED <<notBatch, serverVars, downloadVars>>

\* start_server(), once, before the file is read
B_server ==
    /\ bpc = "server"
    /\ ServerEnter
    /\ bpc' = "read"
    /\ UNCHANGED <<BatchKeeps, urls, index, success_count, fail_count,
                   failed_urls, bRet, attempted, outcomes, interrupted, signals>>
    /\ UNCHANGED <<notBatch, downloadVars>>

\* start_server has returned ; read the urls
B_read ==
    /\ bpc = "read"
    /\ spc = "done"
    /\ urls' = ReadUrls(list_file[1], 1)
    /\ bpc' = "parsed"
    /\ ServerLeave
    /\ UNCHANGED <<BatchKeeps, index, success_count, fail_count,
                   failed_urls, bRet, attempted, outcomes, interrupted, signals>>
    /\ UNCHANGED <<notBatch, downloadVars>>

\* if not urls: return 0 ; the counters start at 0
B_start ==
    /\ bpc = "parsed"
    /\ IF urls = <<>>
       THEN BatchReturn(0)
       ELSE bpc' = "loop" /\ UNCHANGED bRet
    /\ index' = 1
    /\ success_count' = 0
    /\ fail_count' = 0
    /\ failed_urls' = <<>>
    /\ UNCHANGED <<BatchKeeps, urls, attempted, outcomes, interrupted, signals>>
    /\ UNCHANGED <<notBatch, serverVars, downloadVars>>

\* for index, (line_num, url) in enumerate(urls, 1):
\*     result = download_single(url, profile)
B_loop ==
    /\ bpc = "loop"
    /\ IF index <= Len(urls)
       THEN /\ attempted' = Append(attempted, index)
            /\ DownloadEnter(DefaultAutoFix, DefaultMaxRetries)
            /\ bpc' = "call"
       ELSE /\ bpc' = "summary"
            /\ UNCHANGED <<attempted, downloadVars>>
    /\ UNCHANGED <<BatchKeeps, urls, index, success_count, fail_count,
                   failed_urls, bRet, outcomes, interrupted, signals>>
    /\ UNCHANGED <<notBatch, serverVars>>

\* B_result without the break
B_result_NoBreak ==
    /\ bpc = "call"
    /\ dpc \in {"done", "raised"}
    /\ IF dpc = "done" /\ dRet = 0
       THEN /\ success_count' = success_count + 1
            /\ outcomes' = Append(outcomes, "ok")
            /\ UNCHANGED <<fail_count, failed_urls>>
       ELSE /\ fail_count' = fail_count + 1
            /\ failed_urls' = Append(failed_urls, urls[index])
            /\ outcomes' = Append(outcomes, IF dpc = "done" THEN "failed" ELSE "raised")
            /\ UNCHANGED success_count
    /\ bpc' = "loop"
    /\ index' = index + 1
    /\ DownloadLeave
    /\ UNCHANGED <<BatchKeeps, urls, bRet, attempted, interrupted, signals>>
    /\ UNCHANGED <<notBatch, serverVars>>

\* B_result leaving an item whose download raised out of the counts
B_result_RaisedUncounted ==
    /\ bpc = "call"
    /\ dpc \in {"done", "raised"}
    /\ IF dpc = "done" /\ dRet = 0
       THEN /\ success_count' = success_count + 1
            /\ outcomes' = Append(outcomes, "ok")
            /\ bpc' = "loop"
            /\ UNCHANGED <<fail_count, failed_urls>>
       ELSE /\ IF dpc = "done"
               THEN /\ fail_count' = fail_count + 1
                    /\ failed_urls' = Append(failed_urls, urls[index])
               ELSE UNCHANGED <<fail_count, failed_urls>>
            /\ outcomes' = Append(outcomes, IF dpc = "done" THEN "failed" ELSE "raised")
            /\ bpc' = IF continue_on_error THEN "loop" ELSE "summary"
            /\ UNCHANGED success_count
    /\ index' = index + 1
    /\ DownloadLeave
    /\ UNCHANGED <<BatchKeeps, urls, bRet, attempted, interrupted, signals>>
    /\ UNCHANGED <<notBatch, serverVars>>

\* download_single has returned or raised: count it ; a failure with
\* continue_on_error unset breaks out of the loop
B_result ==
    /\ bpc = "call"
    /\ dpc \in {"done", "raised"}
    /\ IF dpc = "done" /\ dRet = 0
       THEN /\ success_count' = success_count + 1
            /\ outcomes' = Append(outcomes, "ok")
            /\ bpc' = "loop"
            /\ UNCHANGED <<fail_count, failed_urls>>
       ELSE /\ fail_count' = fail_count + 1
            /\ failed_urls' = Append(failed_urls, urls[index])
            /\ outcomes' = Append(outcomes, IF dpc = "done" THEN "failed" ELSE "raised")
            /\ bpc' = IF continue_on_error THEN "loop" ELSE "summary"
            /\ UNCHANGED success_count
    /\ index' = index + 1
    /\ DownloadLeave
    /\ UNCHANGED <<BatchKeeps, urls, bRet, attempted, interrupted, signals>>
    /\ UNCHANGED <<notBatch, serverVars>>

\* B_summary reporting success whenever the run went on after errors
B_summary_Lenient ==
    /\ bpc = "summary"
    /\ BatchReturn(IF fail_count = 0 \/ continue_on_error THEN 0 ELSE 1)
    /\ UNCHANGED <<BatchKeeps, urls, index, success_count, fail_count,
                   failed_urls, attempted, outcomes, interrupted, signals>>
    /\ UNCHANGED <<notBatch, serverVars, downloadVars>>

\* the summary ; return 0 if fail_count == 0 else 1
B_summary ==
    /\ bpc = "summary"
    /\ BatchReturn(IF fail_count = 0 THEN 0 ELSE 1)
    /\ UNCHANGED <<BatchKeeps, urls, index, success_count, fail_count,
                   failed_urls, attempted, outcomes, interrupted, signals>>
    /\ UNCHANGED <<notBatch, serverVars, downloadVars>>

(***************************************************************************)
(* The interrupt signal (KeyboardInterrupt) during a batch run.  It is     *)
(* raised in whatever is running.  The bare except clauses of              *)
(* check_server_health and around terminate()/sleep(1) swallow it; from    *)
(* anywhere else below download_single it reaches the loop's               *)
(* except KeyboardInterrupt clause; during the up-front start_server, and  *)
(* in the parts of the loop that the try block does not cover, it leaves   *)
(* download_batch.                                                         *)
(***************************************************************************)
MaxSignals == 1
ServerActive == spc \notin {"idle", "done"}
RepairActive == rpc \notin {"idle", "done"}

\* the frames below the one that catches the signal are left
Unwind ==
    /\ ServerLeave
    /\ RepairLeave

\* the signal arrives inside the loop's try block, below download_single
InTry == bpc = "call" /\ dpc \notin {"done", "raised"}
\* the signal arrives in the loop outside the try block: during the
\* prints that head an iteration, or in the except Exception clause
OutsideTry ==
    \/ bpc = "loop" /\ index <= Len(urls)
    \/ bpc = "call" /\ dpc = "raised"

Interrupt ==
    /\ signals < MaxSignals
    /\ signals' = signals + 1
    /\ \/ InTry
       \/ OutsideTry
       \/ bpc = "read" /\ ServerActive
    /\ ServerActive => spc \notin {"probe", "terminate"}
    /\ IF InTry
       THEN /\ bpc' = "summary"
            /\ interrupted' = TRUE
       ELSE /\ bpc' = "raised"
            /\ UNCHANGED interrupted
    /\ Unwind
    /\ DownloadLeave
    /\ UNCHANGED <<BatchKeeps, urls, index, success_count, fail_count,
                   failed_urls, bRet, attempted, outcomes>>
    /\ UNCHANGED <<sysVars, fsVars, procVars>>

\* swallowed: the probe reads as unhealthy, the terminate/sleep is cut
\* short, the probe after the spawn reads as unhealthy
InterruptSwallowed ==
    /\ signals < MaxSignals
    /\ signals' = signals + 1
    /\ bpc \in {"call", "read"}
    /\ CASE spc = "probe" ->
              /\ ssHealthy' = FALSE
              /\ spc' = "terminate"
              /\ UNCHANGED <<procs, ssRet, ssLog>>
         [] spc = "terminate" ->
              /\ \E o \in TerminateOutcomes(pid) :
                   procs' = CASE o = "killed"  -> [procs EXCEPT ![pid] = "dead"]
                              [] o = "pending" -> [procs EXCEPT ![pid] = "terminating"]
                              [] o = "raised"  -> procs
              /\ ssLog' = Append(ssLog, "terminate")
              /\ spc' = "exists"
              /\ UNCHANGED <<ssHealthy, ssRet>>
         [] spc = "reprobe" ->
              /\ ServerReturn(0)
              /\ UNCHANGED <<procs, ssHealthy, ssLog>>
         [] OTHER -> FALSE
    /\ UNCHANGED <<pid, ssCalls>>
    /\ UNCHANGED <<bpc, BatchKeeps, urls, index, success_count, fail_count,
                   failed_urls, bRet, attempted, outcomes, interrupted>>
    /\ UNCHANGED <<sysVars, fsVars, repairVars, downloadVars>>

download_batch == B_exists \/ B_server \/ B_read \/ B_start \/ B_loop
                  \/ B_result \/ B_summary

(***************************************************************************)
(* Initial states.                                                         *)
(***************************************************************************)
InitRepairLocals ==
    /\ rpc = "idle"
    /\ create_backup = FALSE
    /\ config = NoDoc
    /\ fixed = FALSE
    /\ rRet = FALSE
    /\ rLog = <<>>
    /\ rOrig = NoDoc
    /\ rHist = <<>>

InitServerLocals ==
    /\ spc = "idle"
    /\ pid = 0
    /\ ssHealthy = FALSE
    /\ ssRet = -1
    /\ ssLog = <<>>
    /\ ssCalls = 0

InitDownloadLocals ==
    /\ dpc = "idle"
    /\ max_retries = DefaultMaxRetries
    /\ auto_fix = DefaultAutoFix
    /\ attempt = 0
    /\ result = <<>>
    /\ dRet = -1
    /\ dCodes = <<>>
    /\ dSsRet = -1

InitBatchLocals ==
    /\ bpc = "idle"
    /\ continue_on_error = TRUE
    /\ urls = <<>>
    /\ index = 0
    /\ success_count = 0
    /\ fail_count = 0
    /\ failed_urls = <<>>
    /\ bRet = -1
    /\ attempted = <<>>
    /\ outcomes = <<>>
    /\ interrupted = FALSE
    /\ signals = 0

\* no companion process, or one, in any condition
InitProcs ==
    {[p \in Pids |-> IF p = 1 THEN st ELSE "free"] :
        st \in {"free", "starting", "up", "hung"}}

\* a sound installation: nothing is missing and the profile has no defect
GoodDoc == Doc("default", "str", <<"{album}">>)

(***************************************************************************)
(* Config repair on its own: the function is called on the profile, with   *)
(* or without a backup, up to MaxRepairs times (as fix-all does, once per  *)
(* run of the command).                                                    *)
(***************************************************************************)
RepairCall ==
    /\ UNCHANGED notRepair
    /\ rpc \in {"idle", "done"}
    /\ Len(rHist) < MaxRepairs
    /\ \E cb \in BOOLEAN : RepairEnter(cb)
    /\ UNCHANGED fsVars

InitRepair ==
    /\ doc \in Docs
    /\ docReadable \in BOOLEAN
    /\ backup = <<>>
    /\ procs = [p \in Pids |-> "free"]
    /\ serverFile = TRUE
    /\ profileExists = TRUE
    /\ venv = TRUE
    /\ importable = TRUE
    /\ exitCodes = ExitCodes
    /\ list_file = <<>>
    /\ InitRepairLocals
    /\ InitServerLocals
    /\ InitDownloadLocals
    /\ InitBatchLocals

NextRepair == RepairCall \/ fix_config_if_needed

SpecRepair == InitRepair /\ [][NextRepair]_vars

(***************************************************************************)
(* The supervisor on its own: the 'server' command, run up to              *)
(* MaxServerCalls times while the companion processes live their lives.    *)
(***************************************************************************)
MaxServerCalls == 3

ServerCall ==
    /\ spc \in {"idle", "done"}
    /\ ssCalls < MaxServerCalls
    /\ ServerEnter
    /\ UNCHANGED procs
    /\ UNCHANGED notServer

InitServer ==
    /\ doc = GoodDoc
    /\ docReadable = TRUE
    /\ backup = <<>>
    /\ procs \in InitProcs
    /\ serverFile \in BOOLEAN
    /\ profileExists = TRUE
    /\ venv = TRUE
    /\ importable = TRUE
    /\ exitCodes = ExitCodes
    /\ list_file = <<>>
    /\ InitRepairLocals
    /\ InitServerLocals
    /\ InitDownloadLocals
    /\ InitBatchLocals

Companion == ProcReady \/ ProcHang \/ ProcExit

NextServer == ServerCall \/ start_server \/ Companion

SpecServer == InitServer /\ [][NextServer]_vars

(***************************************************************************)
(* One call of download_single, with any arguments, in any installation.   *)
(***************************************************************************)
MaxRetriesArg == 2
RetryArgs == (0 - 1)..MaxRetriesArg

DownloadDocs == {GoodDoc,
                 Doc("aria2c", "str", <<"{album}", " ", "[", Placeholder, "]">>),
                 Doc("aria2c", "null", <<>>)}

DownloadCall ==
    /\ dpc = "idle"
    /\ \E af \in BOOLEAN, mr \in RetryArgs : DownloadEnter(af, mr)
    /\ UNCHANGED <<fsVars, procVars, repairVars, serverVars, notDownload>>

InitDownload ==
    /\ doc \in DownloadDocs
    /\ docReadable \in BOOLEAN
    /\ backup = <<>>
    /\ procs \in InitProcs
    /\ serverFile \in BOOLEAN
    /\ profileExists \in BOOLEAN
    /\ venv \in BOOLEAN
    /\ importable \in BOOLEAN
    /\ exitCodes = ExitCodes
    /\ list_file = <<>>
    /\ InitRepairLocals
    /\ InitServerLocals
    /\ InitDownloadLocals
    /\ InitBatchLocals

NextDownload == DownloadCall \/ download_single \/ start_server
                \/ fix_config_if_needed \/ Companion

SpecDownload == InitDownload /\ [][NextDownload]_vars

(***************************************************************************)
(* Reading the list file: download_batch up to the point where urls is     *)
(* built, over every list file of up to MaxLines lines.                    *)
(***************************************************************************)
MaxLines == 2
MaxLineLen == 2
LineTokens == {" ", "#", "https://a"}
ExampleFile == << <<"https://a">>, <<>>, <<"#", " ", "comment">>, <<"https://b">> >>
\* every short line, the example's lines, a line padded on both sides and
\* one with white space inside
Lines == SeqsUpTo(LineTokens, MaxLineLen) \cup
         {ExampleFile[3], ExampleFile[4], <<" ", "https://a", " ">>,
          <<"https://a", " ", "https://b">>}
Files == SeqsUpTo(Lines, MaxLines) \cup {ExampleFile}

BatchCall ==
    /\ bpc = "idle"
    /\ bpc' = "exists"
    /\ \E coe \in BOOLEAN : continue_on_error' = coe
    /\ UNCHANGED <<list_file, urls, index, success_count, fail_count,
                   failed_urls, bRet, attempted, outcomes, interrupted, signals>>
    /\ UNCHANGED <<notBatch, serverVars, downloadVars>>

InitParse ==
    /\ doc = GoodDoc
    /\ docReadable = TRUE
    /\ backup = <<>>
    /\ procs = [p \in Pids |-> IF p = 1 THEN "hung" ELSE "free"]
    /\ serverFile = TRUE
    /\ profileExists = TRUE
    /\ venv = TRUE
    /\ importable = TRUE
    /\ exitCodes = ExitCodes
    /\ list_file \in {<<>>} \cup {<<f>> : f \in Files}
    /\ InitRepairLocals
    /\ InitServerLocals
    /\ InitDownloadLocals
    /\ InitBatchLocals

NextParse == BatchCall \/ B_exists \/ B_server \/ start_server \/ B_read

SpecParse == InitParse /\ [][NextParse]_vars

(***************************************************************************)
(* A whole batch run: the engine succeeds (0), fails (1) or cannot be run.  *)
(***************************************************************************)
\* the list files of a batch run: a comment line, then n lines with a url
MaxItems == 3
ItemsFile(n) == <<ExampleFile[3]>> \o [i \in 1..n |-> ExampleFile[1]]
BatchFiles == {ItemsFile(n) : n \in 0..MaxItems}

InitBatch ==
    /\ doc = GoodDoc
    /\ docReadable = TRUE
    /\ backup = <<>>
    /\ procs \in {[p \in Pids |-> IF p = 1 THEN st ELSE "free"] : st \in {"free", "up"}}
    /\ serverFile = TRUE
    /\ profileExists \in BOOLEAN
    /\ venv \in BOOLEAN
    /\ importable = FALSE
    /\ exitCodes = {0, 1}
    /\ list_file \in {<<>>} \cup {<<f>> : f \in BatchFiles}
    /\ InitRepairLocals
    /\ InitServerLocals
    /\ InitDownloadLocals
    /\ InitBatchLocals

NextBatch == BatchCall \/ download_batch \/ download_single \/ start_server
             \/ fix_config_if_needed \/ Companion
             \/ Interrupt \/ InterruptSwallowed

SpecBatch == InitBatch /\ [][NextBatch]_vars

(***************************************************************************)
(* Properties of config repair, stated over SpecRepair.                    *)
(***************************************************************************)
HasPlaceholder(d) ==
    d.tf_kind = "str" /\ Contains(d.template_folder, <<Placeholder>>)
HasDefect(d) == d.download_mode = "aria2c" \/ HasPlaceholder(d)
Logged(log, e) == \E i \in 1..Len(log) : log[i] = e
\* every write to the profile was possible in the runs so far
NoWriteFailure == \A i \in 1..Len(rHist) : ~Logged(rHist[i].log, "write_failed")

\* C5: repair is idempotent: once two runs on a readable, writable
\* document are over, the second run has left the document as the first
\* one left it, has returned False and has not written.
C5_Idempotent ==
    (Len(rHist) = 2 /\ docReadable /\ NoWriteFailure) =>
        /\ rHist[2].after = rHist[1].after
        /\ rHist[2].ret = FALSE
        /\ ~Logged(rHist[2].log, "write")

\* C6: when a run on a readable, writable document whose download_mode
\* was 'aria2c' is over, the document on disk has no download_mode.
C6_ModeRemoved ==
    (rpc = "done" /\ docReadable /\ ~Logged(rLog, "write_failed")
                  /\ rOrig.download_mode = "aria2c") =>
        doc.download_mode = "absent"

\* what is left of a template without the placeholder and its wrappers
WithoutPlaceholder(t) == Replace(NewTemplate(t), <<Placeholder>>)

\* C7: when a run on a readable, writable document whose template held
\* the placeholder (wrapped in brackets or not) is over, the template on
\* disk holds it no more and the rest of the template is as it was.
C7_PlaceholderRemoved ==
    (rpc = "done" /\ docReadable /\ ~Logged(rLog, "write_failed")
                  /\ HasPlaceholder(rOrig)) =>
        /\ doc.tf_kind = "str"
        /\ ~Contains(doc.template_folder, <<Placeholder>>)
        /\ doc.template_folder = WithoutPlaceholder(rOrig.template_folder)

\* the backup attempt of a run comes before its write
BackupBeforeWrite(log) ==
    \A i \in 1..Len(log) : log[i] = "write" =>
        \E j \in 1..(i - 1) : log[j] \in {"backup", "backup_failed"}

\* C8: when a run with backup requested on a readable, writable document
\* that has a defect is over, the backup was attempted before the write
\* and, whether the backup worked or failed, the document was rewritten
\* without its defects' fields and the run returned True.
C8_BackupThenRepair ==
    (rpc = "done" /\ docReadable /\ ~Logged(rLog, "write_failed")
                  /\ create_backup /\ HasDefect(rOrig)) =>
        /\ BackupBeforeWrite(rLog)
        /\ Logged(rLog, "write")
        /\ rRet = TRUE
        /\ doc # rOrig
(***************************************************************************)
(* Properties of download_single, stated over SpecDownload.                *)
(***************************************************************************)
\* profile and interpreter are there, so the retry loop is reached
Resolved == profileExists /\ (venv \/ importable)

\* C1: with max_retries >= 0 the engine is never run more than
\* max_retries + 1 times nor again after an exit code 0; and when
\* download_single has returned with profile and interpreter resolved, it
\* ran the engine up to the first exit code 0 and returned 0, or ran it
\* max_retries + 1 times without one and returned the last exit code.
C1_RetryBound ==
    max_retries >= 0 =>
        LET n == Len(dCodes) IN
        /\ n <= max_retries + 1
        /\ \A i \in 1..(n - 1) : dCodes[i] # 0
        /\ (dpc = "done" /\ Resolved) =>
              /\ n >= 1
              /\ dCodes[n] = 0 => dRet = 0
              /\ dCodes[n] # 0 => (n = max_retries + 1 /\ dRet = dCodes[n])

\* max_retries = 2 and an engine that always fails: three runs, and the
\* last exit code is returned
C1_Witness ==
    /\ dpc = "done" /\ Resolved /\ max_retries = 2
    /\ dCodes = <<1, 1, 2>> /\ dRet = 2

(***************************************************************************)
(* Properties of download_batch.                                           *)
(***************************************************************************)
AnyFailure == \E i \in 1..Len(outcomes) : outcomes[i] # "ok"

\* C2: a batch run over at least one work item returns 0 or 1, and 0
\* exactly when its failure count is 0: 1 as soon as one item failed, 0
\* when every item succeeded, with continue_on_error set or not.
C2_BatchExitCode ==
    (bpc = "done" /\ urls # <<>>) =>
        /\ bRet \in {0, 1}
        /\ bRet = 0 <=> fail_count = 0
        /\ AnyFailure => bRet = 1
        /\ (Len(outcomes) = Len(urls) /\ ~AnyFailure) => bRet = 0

C2_Witness ==
    /\ bpc = "done" /\ Len(urls) = 3 /\ continue_on_error
    /\ outcomes = <<"ok", "failed", "ok">> /\ bRet = 1

\* C3: while no interrupt signal has been delivered, the items handed to
\* download_single are the first items of the list, in order and once
\* each; with continue_on_error unset nothing is handed over after the
\* first item that failed or raised; with it set, a finished run has
\* handed over every item.
C3_Order ==
    signals = 0 =>
        /\ attempted = [i \in 1..Len(attempted) |-> i]
        /\ Len(attempted) <= Len(urls)
        /\ \A k \in 1..(Len(urls) - 1) : urls[k][1] < urls[k + 1][1]
        /\ ~continue_on_error =>
             \A i \in 1..Len(outcomes) : outcomes[i] # "ok" => Len(attempted) = i
        /\ (continue_on_error /\ bpc = "done" /\ list_file # <<>>) =>
             Len(attempted) = Len(urls)

C3_Witness ==
    /\ signals = 0 /\ bpc = "done" /\ ~continue_on_error
    /\ Len(urls) = 3 /\ outcomes = <<"ok", "raised">> /\ attempted = <<1, 2>>

\* the places of a line that hold no white space
NonSpace(l) == {j \in 1..Len(l) : l[j] # " "}
FirstOf(S) == CHOOSE j \in S : \A k \in S : j <= k
LastOf(S) == CHOOSE j \in S : \A k \in S : k <= j
\* a line without the white space around it
Core(l) == SubSeq(l, FirstOf(NonSpace(l)), LastOf(NonSpace(l)))
\* the lines that are not blank and whose text does not start with '#'
Kept(ls) == {i \in 1..Len(ls) :
                NonSpace(ls[i]) # {} /\ ls[i][FirstOf(NonSpace(ls[i]))] # "#"}

\* C4: once the list file is read, urls holds one pair per line that is
\* neither blank nor (after stripping) a '#' line: the line's 1-based
\* number in the file and its stripped text, in file order; the file
\* ["https://a", "", "# comment", "https://b"] gives [(1, "https://a"),
\* (4, "https://b")].
C4_WorkItems ==
    bpc = "parsed" =>
        LET ls == list_file[1] IN
        /\ {urls[k][1] : k \in 1..Len(urls)} = Kept(ls)
        /\ \A k \in 1..(Len(urls) - 1) : urls[k][1] < urls[k + 1][1]
        /\ \A k \in 1..Len(urls) : urls[k][2] = Core(ls[urls[k][1]])
        /\ ls = ExampleFile =>
             urls = << <<1, <<"https://a">> >>, <<4, <<"https://b">> >> >>

C4_Witness ==
    /\ bpc = "parsed" /\ list_file = <<ExampleFile>> /\ Len(urls) = 2

(***************************************************************************)
(* Properties of start_server, stated over SpecServer, which starts with   *)
(* at most one companion process.                                          *)
(***************************************************************************)
\* C9: two companion processes are never alive together, and when
\* start_server has returned 0 exactly one is alive.
C9_OneInstance ==
    /\ Cardinality(Alive) <= 1
    /\ (spc = "done" /\ ssRet = 0) => Cardinality(Alive) = 1

\* C10: when start_server has found a running instance and the health
\* probe succeeded, it has returned 0 and has neither terminated nor
\* spawned a process nor looked for the entry-point file.
C10_FastPath ==
    (spc = "done" /\ pid # 0 /\ ssHealthy) =>
        /\ ssRet = 0
        /\ ssLog = <<>>

C10_Witness ==
    /\ spc = "done" /\ pid # 0 /\ ssHealthy /\ ssRet = 0 /\ ssCalls = 2

\* the call has left the probing and is on the start path or has returned
PastProbe == spc \in {"exists", "spawn", "reprobe", "done"}

\* what C11 says of one step of start_server (a step that leaves spc as
\* it is belongs to a companion process)
TerminateStep ==
    /\ (spc = "find" /\ spc' # spc) =>
          (spc' = (IF pid' = 0 THEN "exists" ELSE "probe"))
    /\ (spc = "probe" /\ spc' # spc) => ((spc' = "terminate") <=> ~ssHealthy')
    /\ (spc = "terminate" /\ spc' # spc) =>
          (spc' = "exists" /\ ssLog' = Append(ssLog, "terminate"))
    /\ (Logged(ssLog', "terminate") /\ ~Logged(ssLog, "terminate")) =>
          (spc = "terminate")

\* C11: start_server attempts a termination exactly when a process was
\* found and the health probe failed, and goes on to the start path right
\* after it; when no process is found it goes from the search straight to
\* the start path, with no probe and no termination.
C11_TerminateIffUnhealthy ==
    /\ [](PastProbe => (Logged(ssLog, "terminate") <=> (pid # 0 /\ ~ssHealthy)))
    /\ [][TerminateStep]_vars

\* a process was found, did not answer, was sent the signal, and the call
\* went on to spawn a new one
C11_Witness ==
    /\ spc = "done" /\ pid # 0 /\ ~ssHealthy
    /\ ssLog = <<"terminate", "exists", "spawn">>

\* a step that starts no process
NoSpawnStep == \A p \in Pids : procs'[p] = "starting" => procs[p] = "starting"

\* C12: when main.js is missing, a call of start_server that did not find
\* a running instance answering the probe returns 1, and no process is
\* ever spawned: no Popen is tried and no new process appears.
C12_MissingArtifact ==
    /\ []((spc = "done" /\ ~serverFile /\ ~(pid # 0 /\ ssHealthy)) =>
            (ssRet = 1 /\ ~Logged(ssLog, "spawn") /\ ~Logged(ssLog, "spawn_failed")))
    /\ [][~serverFile => NoSpawnStep]_vars

\* main.js is missing, the process found did not answer: it was sent the
\* signal and the call returned 1
C12_Witness ==
    /\ spc = "done" /\ ~serverFile /\ pid # 0 /\ ~ssHealthy
    /\ ssRet = 1 /\ ssLog = <<"terminate", "exists">>

\* C13: when main.js exists and the Popen of a call has succeeded, the
\* call returns 0, whether the probe after the 2 s wait is answered or
\* not: the step out of the re-probe always returns 0.
C13_SpawnedIsSuccess ==
    /\ []((spc = "done" /\ Logged(ssLog, "spawn")) => (serverFile /\ ssRet = 0))
    /\ [][(spc = "reprobe" /\ spc' = "done") => ssRet' = 0]_vars

\* nothing was running, the new process is still starting and does not
\* answer, and the call has returned 0
C13_Witness ==
    /\ spc = "done" /\ ssLog = <<"exists", "spawn">> /\ ssRet = 0
    /\ procs = [p \in Pids |-> IF p = 1 THEN "starting" ELSE "free"]
    /\ ~check_server_health

(***************************************************************************)
(* Properties of the supervisor inside a batch run, stated over SpecBatch. *)
(***************************************************************************)
\* the processes that answer the probe or are on their way to
Serving == {p \in Pids : procs[p] \in {"starting", "up"}}

\* what C14 says of one step of a per-item call of start_server, in a
\* run that no interrupt signal has reached
HarmlessStep ==
    (bpc = "call" /\ signals = 0) =>
        /\ (spc = "terminate" /\ spc' = "exists") => (pid \notin Serving)
        /\ (spc = "spawn" /\ spc' = "reprobe") => (Serving = {})

\* C14: in a batch run without interrupt, a call of start_server made for an item never
\* sends the terminate to a companion process that answers the probe or
\* is still starting, and never spawns a process while there is one.
C14_Harmless == [][HarmlessStep]_vars

(***************************************************************************)
(* More properties of download_single, stated over SpecDownload.           *)
(***************************************************************************)
\* C15: when the profile file is absent, or there is neither a venv nor
\* an importable gytmdl, download_single never runs the engine, never
\* enters the retry loop, does not raise, and returns 1; for an absent
\* profile fix_config_if_needed is not called either.
C15_Unavailable ==
    /\ (~profileExists \/ (~venv /\ ~importable)) =>
          /\ dCodes = <<>>
          /\ dpc \notin {"loop", "raised"}
          /\ dpc = "done" => dRet = 1
    /\ ~profileExists => (rpc = "idle" /\ rHist = <<>>)

\* the profile is absent: return 1, no engine run, no repair, whatever
\* the retry budget
C15_Witness ==
    /\ dpc = "done" /\ ~profileExists /\ auto_fix /\ max_retries = 2
    /\ dRet = 1 /\ dCodes = <<>> /\ rHist = <<>>

\* what a finished call returns, from the installation and the exit codes
\* of its engine runs alone (with no run at all, the exit code 0 of the
\* import check is what is left in result)
ExpectedReturn ==
    IF ~Resolved THEN 1
    ELSE IF dCodes = <<>> THEN 0
    ELSE dCodes[Len(dCodes)]

\* the engine runs of a finished call are all the runs the loop makes:
\* up to the first exit code 0, or max_retries + 1 of them
AllRuns ==
    (Resolved /\ max_retries >= 0) =>
        /\ dCodes # <<>>
        /\ dCodes[Len(dCodes)] = 0 \/ Len(dCodes) = max_retries + 1

\* C16: the status of start_server does not abort download_single nor
\* change what it does: the step that receives the status goes on by the
\* presence of the profile alone, and a finished call has made all the
\* engine runs of its loop and returned what the installation and the
\* exit codes give, whether start_server returned 0 or 1.
C16_ServerStatusIgnored ==
    /\ [](dpc = "done" => (AllRuns /\ dRet = ExpectedReturn))
    /\ [][(dpc = "profile" /\ dpc' # dpc) =>
            (dpc' = IF profileExists THEN "fix" ELSE "done")]_vars

\* start_server returned 1 (main.js is missing) and the download went on:
\* a failed run, a retry that succeeded, return 0
C16_Witness ==
    /\ dpc = "done" /\ dSsRet = 1 /\ ~serverFile
    /\ dCodes = <<1, 0>> /\ dRet = 0

(***************************************************************************)
(* More properties of download_batch, stated over SpecBatch.               *)
(***************************************************************************)
\* what C17 says of one step: a signal delivered while an item's
\* download_single is running (inside the loop's try block) takes the run
\* to the summary, and from the summary the run only returns
GracefulStep ==
    /\ (signals' # signals /\ InTry) =>
          (bpc' = "summary" /\ attempted' = attempted)
    /\ (bpc = "summary" /\ bpc' # bpc) =>
          /\ bpc' = "done"
          /\ attempted' = attempted
          /\ bRet' = (IF fail_count = 0 THEN 0 ELSE 1)

\* C17: an interrupt signal delivered while download_batch is in its
\* loop, downloading an item, ends the loop: the run goes to the summary
\* with no further item handed to download_single, and returns 0 or 1 by
\* its failure count; the signal neither leaves download_batch nor is
\* lost.
C17_GracefulInterrupt == [][GracefulStep]_vars

\* the run of fix_config_if_needed with this record could not read (or
\* parse) the document, or could not write it
RepairFailed(h) == ~docReadable \/ Logged(h.log, "write_failed")

\* C18: a run of fix_config_if_needed that fails to read, parse or write
\* the document returns False; download_single
\* goes on from the repair to the interpreter whatever the repair
\* returned, and a call whose repair failed still makes all the engine
\* runs of its loop and returns by their exit codes.
C18_RepairFailureCaught ==
    /\ [](\A i \in 1..Len(rHist) :
            RepairFailed(rHist[i]) => rHist[i].ret = FALSE)
    /\ []((dpc = "done" /\ auto_fix /\ rHist # <<>> /\ RepairFailed(rHist[1])) =>
            (AllRuns /\ dRet = ExpectedReturn))
    /\ [][(dpc = "fixing" /\ dpc' # dpc) => dpc' = "env"]_vars

\* the document could not be read, the repair returned False, and the
\* engine was run and succeeded
C18_Witness ==
    /\ dpc = "done" /\ auto_fix /\ ~docReadable
    /\ Len(rHist) = 1 /\ rHist[1].ret = FALSE
    /\ dCodes = <<0>> /\ dRet = 0

\* the positions in urls of the items whose download_single call is over
\* and did not return 0
FailedPositions ==
    SelectSeq([i \in 1..Len(outcomes) |-> i], LAMBDA i : outcomes[i] # "ok")

\* C19: in every state of a batch run, failed_urls holds the (line_num,
\* url) pairs of the items whose download_single call returned non-zero or
\* raised, in the order of the file (line numbers strictly increasing),
\* fail_count is its length, and success_count + fail_count is the number
\* of finished download_single calls, which is at most the number of
\* items.
C19_FailureList ==
    /\ failed_urls = [j \in 1..Len(FailedPositions) |-> urls[FailedPositions[j]]]
    /\ \A j \in 1..(Len(failed_urls) - 1) : failed_urls[j][1] < failed_urls[j + 1][1]
    /\ fail_count = Len(failed_urls)
    /\ success_count + fail_count = Len(outcomes)
    /\ Len(outcomes) <= Len(urls)

\* three items: the first failed, the second succeeded, the third raised
C19_Witness ==
    /\ bpc = "done" /\ Len(urls) = 3
    /\ outcomes = <<"failed", "ok", "raised">>
    /\ failed_urls = <<urls[1], urls[3]>> /\ fail_count = 2 /\ success_count = 1

(***************************************************************************)
(* The return value 0 of download_single, stated over SpecDownload, where  *)
(* max_retries ranges over -1..MaxRetriesArg.                              *)
(***************************************************************************)
\* C20: whatever max_retries and the installation, when download_single
\* has returned 0 one of its engine runs exited with code 0; in
\* particular it has run the engine at least once.
C20_ZeroNeedsSuccess ==
    (dpc = "done" /\ dRet = 0) => \E i \in 1..Len(dCodes) : dCodes[i] = 0

(***************************************************************************)
(* The return value 0 of download_batch, stated over SpecBatch.            *)
(***************************************************************************)
\* C21: when a batch run over at least one work item has returned 0,
\* the download_single call of every item of the list is over and
\* returned 0: none was left out, cut short, failed or raised.
C21_ZeroMeansAll ==
    (bpc = "done" /\ urls # <<>> /\ bRet = 0) =>
        /\ Len(outcomes) = Len(urls)
        /\ ~AnyFailure

(***************************************************************************)
(* The backup file over several runs of config repair, stated over         *)
(* SpecRepair.                                                             *)
(***************************************************************************)
\* the document as it was when the first run started, before any run
\* wrote to it
FirstDoc == IF rHist = <<>> THEN rOrig ELSE rHist[1].before

\* every run so far, the one under way included, was asked for a backup,
\* and no copy to the backup file failed
BackupsRequestedAndMade ==
    /\ \A i \in 1..Len(rHist) :
          rHist[i].backup /\ ~Logged(rHist[i].log, "backup_failed")
    /\ (rpc \notin {"idle", "done"}) =>
          (create_backup /\ ~Logged(rLog, "backup_failed"))

\* C22: over any sequence of runs of fix_config_if_needed on the profile,
\* each with create_backup set and no copy failing, the backup file, once
\* it exists, holds the document as it was before the first run: no run
\* replaces it by a document that an earlier run has rewritten.
C22_BackupIsOriginal ==
    (BackupsRequestedAndMade /\ backup # <<>>) => backup[1] = FirstDoc
====
